---- MODULE Spec2Model ----
(***************************************************************************)
(* Model of 0x02-redis_basic: exercise.py (the Cache class with its        *)
(* count_calls / call_history decorators and replay) and web.py (the       *)
(* expiring page cache get_page).                                          *)
(*                                                                         *)
(* Text is a sequence of code points, bytes a sequence of 0..255.  Python  *)
(* values are records [t, v]: t is the Python type, v the content.  The    *)
(* Redis database is a function from key bytes to entries                  *)
(* [kind, val, exp]; exp = 0 means "no expiration".                        *)
(***************************************************************************)
EXTENDS Integers, Sequences, FiniteSets, TLC

VARIABLES
    db,       \* the Redis database both scripts connect to (Redis())
    uuids,    \* how many uuid4() values have been drawn so far
    ret,      \* what the last operation returned or raised
    out,      \* what the last operation printed (replay)
    op,       \* the last operation and its arguments
    stored,   \* observer: <<arg, key>> of every store call that returned since __init__
    now,      \* the Redis server's clock
    fetched,  \* observer: per url, [at, text] of every requests.get(url) that ran
    pages,    \* observer: per url, how many get_page(url) calls returned
    calls     \* per concurrent caller of store, how far its call has come: [pc, data, key]

vars == <<db, uuids, ret, out, op, stored, now, fetched, pages, calls>>

----------------------------------------------------------------------------
(* Bounds of the model *)

MaxStore == 2      \* store calls (uuid4 draws) in one behaviour
MaxReads == 2      \* value of the 'Cache.get' counter at which reads stop
MaxTime == 12      \* last value of the server's clock
MaxPages == 3      \* get_page calls in one behaviour
MaxTries == 2      \* get_page calls in one behaviour when the fetch can fail

----------------------------------------------------------------------------
(* Python values *)

PyStr(s)   == [t |-> "str", v |-> s]
PyBytes(b) == [t |-> "bytes", v |-> b]
PyInt(n)   == [t |-> "int", v |-> n]
PyFloat(n) == [t |-> "float", v |-> n]      \* the float n / 10, n >= 0
None     == [t |-> "None", v |-> 0]
Raise(e) == [t |-> "raise", v |-> e]

IsRaise(x) == x.t = "raise"

RECURSIVE Digits(_)
Digits(n) == IF n < 10 THEN <<48 + n>> ELSE Digits(n \div 10) \o <<48 + (n % 10)>>

\* repr(n) of an int
IntRepr(n) == IF n < 0 THEN <<45>> \o Digits(0 - n) ELSE Digits(n)

\* repr(f) of the float n / 10 (one fractional digit)
FloatRepr(n) == Digits(n \div 10) \o <<46>> \o <<48 + (n % 10)>>

\* one code point (below 0x800) as UTF-8
Utf8Char(c) == IF c < 128 THEN <<c>> ELSE <<192 + (c \div 64), 128 + (c % 64)>>

RECURSIVE Utf8Encode(_)
Utf8Encode(s) == IF s = <<>> THEN <<>> ELSE Utf8Char(Head(s)) \o Utf8Encode(Tail(s))

IsCont(b) == b >= 128 /\ b < 192

RECURSIVE Utf8Valid(_)
Utf8Valid(b) ==
    IF b = <<>> THEN TRUE
    ELSE IF b[1] < 128 THEN Utf8Valid(Tail(b))
    ELSE IF b[1] >= 194 /\ b[1] < 224 /\ Len(b) >= 2 /\ IsCont(b[2])
         THEN Utf8Valid(Tail(Tail(b)))
    ELSE FALSE

RECURSIVE Utf8Decode(_)
Utf8Decode(b) ==
    IF b = <<>> THEN <<>>
    ELSE IF b[1] < 128 THEN <<b[1]>> \o Utf8Decode(Tail(b))
    ELSE <<(b[1] - 192) * 64 + (b[2] - 128)>> \o Utf8Decode(Tail(Tail(b)))

\* bytes.decode('utf-8')
Decode(b) == IF Utf8Valid(b) THEN PyStr(Utf8Decode(b)) ELSE Raise("UnicodeDecodeError")

IsDigit(c) == c >= 48 /\ c <= 57

RECURSIVE AllDigits(_)
AllDigits(b) == b = <<>> \/ (IsDigit(Head(b)) /\ AllDigits(Tail(b)))

RECURSIVE DigitsValue(_)
DigitsValue(b) ==
    IF b = <<>> THEN 0 ELSE DigitsValue(SubSeq(b, 1, Len(b) - 1)) * 10 + (b[Len(b)] - 48)

IsIntText(b) ==
    \/ b # <<>> /\ AllDigits(b)
    \/ Len(b) >= 2 /\ b[1] \in {43, 45} /\ AllDigits(Tail(b))

IntValue(b) ==
    IF b[1] = 45 THEN 0 - DigitsValue(Tail(b))
    ELSE IF b[1] = 43 THEN DigitsValue(Tail(b))
    ELSE DigitsValue(b)

\* int(b) of a bytes object
ParseInt(b) == IF IsIntText(b) THEN PyInt(IntValue(b)) ELSE Raise("ValueError")

\* redis-py's encoding of a value or key name sent to the server
RedisEncode(x) ==
    CASE x.t = "bytes" -> x.v
      [] x.t = "str"   -> Utf8Encode(x.v)
      [] x.t = "int"   -> Utf8Encode(IntRepr(x.v))
      [] x.t = "float" -> Utf8Encode(FloatRepr(x.v))

Key(name) == Utf8Encode(name)

----------------------------------------------------------------------------
(* The Redis commands the scripts use *)

EmptyDb == [k \in {} |-> 0]

Put(d, k, e) == [x \in DOMAIN d \cup {k} |-> IF x = k THEN e ELSE d[x]]

StringEntry(b, e) == [kind |-> "string", val |-> b, exp |-> e]
ListEntry(l)      == [kind |-> "list", val |-> l, exp |-> 0]

\* GET name
RedisGet(d, name) ==
    IF Key(name) \notin DOMAIN d THEN None
    ELSE IF d[Key(name)].kind = "string" THEN PyBytes(d[Key(name)].val)
    ELSE Raise("ResponseError")

\* SET name value
RedisSet(d, name, x) == Put(d, Key(name), StringEntry(RedisEncode(x), 0))

\* SETEX name time value, at server time t
RedisSetex(d, name, time, x, t) == Put(d, Key(name), StringEntry(RedisEncode(x), t + time))

\* DECR name
RedisDecr(d, name) ==
    IF Key(name) \in DOMAIN d
    THEN Put(d, Key(name),
             StringEntry(Utf8Encode(IntRepr(IntValue(d[Key(name)].val) - 1)),
                         d[Key(name)].exp))
    ELSE Put(d, Key(name), StringEntry(Utf8Encode(IntRepr(0 - 1)), 0))

\* INCR name
RedisIncr(d, name) ==
    IF Key(name) \in DOMAIN d
    THEN Put(d, Key(name),
             StringEntry(Utf8Encode(IntRepr(IntValue(d[Key(name)].val) + 1)),
                         d[Key(name)].exp))
    ELSE Put(d, Key(name), StringEntry(Utf8Encode(IntRepr(1)), 0))

\* LPUSH name value: the new item goes to the head of the list
RedisLpush(d, name, x) ==
    IF Key(name) \in DOMAIN d
    THEN Put(d, Key(name), ListEntry(<<RedisEncode(x)>> \o d[Key(name)].val))
    ELSE Put(d, Key(name), ListEntry(<<RedisEncode(x)>>))

\* RPUSH name value
RedisRpush(d, name, x) ==
    IF Key(name) \in DOMAIN d
    THEN Put(d, Key(name), ListEntry(Append(d[Key(name)].val, RedisEncode(x))))
    ELSE Put(d, Key(name), ListEntry(<<RedisEncode(x)>>))

\* LRANGE name 0 -1
RedisLrange(d, name) == IF Key(name) \in DOMAIN d THEN d[Key(name)].val ELSE <<>>

\* a flush that is never sent
RedisFlushdb_skipped(d) == d

\* FLUSHDB
RedisFlushdb(d) == EmptyDb

\* the server drops every key whose time to live has run out at time t
Expire(d, t) == [k \in {x \in DOMAIN d : d[x].exp = 0 \/ d[x].exp > t} |-> d[k]]

----------------------------------------------------------------------------
(* exercise.py *)

QualStore  == <<67, 97, 99, 104, 101, 46, 115, 116, 111, 114, 101>>         \* 'Cache.store'
QualGet    == <<67, 97, 99, 104, 101, 46, 103, 101, 116>>                   \* 'Cache.get'
QualGetStr == <<67, 97, 99, 104, 101, 46, 103, 101, 116, 95, 115, 116, 114>> \* 'Cache.get_str'
QualGetInt == <<67, 97, 99, 104, 101, 46, 103, 101, 116, 95, 105, 110, 116>> \* 'Cache.get_int'

InputsKey(qualname)  == qualname \o <<58, 105, 110, 112, 117, 116, 115>>       \* ':inputs'
OutputsKey(qualname) == qualname \o <<58, 111, 117, 116, 112, 117, 116, 115>>  \* ':outputs'

Methods == {QualStore, QualGet, QualGetStr, QualGetInt}

\* a generator that repeats itself
uuid4_repeated(n) == <<117, 49>>

\* str(uuid4()) of the n-th draw: distinct draws give distinct texts ('u1', 'u2', ...)
uuid4(n) == <<117>> \o IntRepr(n)

\* repr(x) of a str (no quote or escape in the model's alphabet), int or float
PyRepr(x) ==
    CASE x.t = "str"   -> <<39>> \o x.v \o <<39>>
      [] x.t = "int"   -> IntRepr(x.v)
      [] x.t = "float" -> FloatRepr(x.v)

\* str(tuple([i.decode('utf-8') if type(i) == bytes else i for i in args])) for args = (data,)
ArgsText(data) ==
    <<40>> \o PyRepr(IF data.t = "bytes" THEN Decode(data.v) ELSE data) \o <<44, 41>>

\* a wrapper that forgets the increment
count_calls_forgotten(d, qualname) == d

\* count_calls.wrapper, up to the call of fn
count_calls(d, qualname) == RedisIncr(d, qualname)

\* Cache.store under count_calls: the n-th uuid4 draw names the record
store_counted(d, data, n) ==
    LET d1  == count_calls(d, QualStore)
        key == uuid4(n)
    IN  [db |-> RedisSet(d1, key, data), ret |-> PyStr(key)]

\* call_history.wrapper around it: Cache.store as callers see it
store(d, data, n) ==
    IF data.t = "bytes" /\ ~Utf8Valid(data.v)
    THEN [db |-> d, ret |-> Raise("UnicodeDecodeError")]
    ELSE LET d1 == RedisRpush(d, InputsKey(QualStore), PyStr(ArgsText(data)))
             r  == store_counted(d1, data, n)
         IN  [db |-> RedisRpush(r.db, OutputsKey(QualStore), r.ret), ret |-> r.ret]

\* the callables handed to get: none, lambda x: x.decode('utf-8'), lambda x: int(x)
Fns == {"None", "decode", "int"}

Apply(fn, x) ==
    CASE fn = "decode" -> IF x.t = "None" THEN Raise("AttributeError") ELSE Decode(x.v)
      [] fn = "int"    -> IF x.t = "None" THEN Raise("TypeError") ELSE ParseInt(x.v)

\* Cache.get under count_calls
get(d, key, fn) ==
    LET d1   == count_calls(d, QualGet)
        data == RedisGet(d1, key)
    IN  [db |-> d1,
         ret |-> IF IsRaise(data) THEN data
                 ELSE IF fn # "None" THEN Apply(fn, data) ELSE data]

\* get_str left undecorated
get_str_uncounted(d, key) == get(d, key, "decode")

\* Cache.get_str under count_calls
get_str(d, key) == get(count_calls(d, QualGetStr), key, "decode")

\* get_int handing get the text conversion
get_int_decoding(d, key) == get(count_calls(d, QualGetInt), key, "decode")

\* Cache.get_int under count_calls
get_int(d, key) == get(count_calls(d, QualGetInt), key, "int")

Min(a, b) == IF a < b THEN a ELSE b

\* f'{method_name} was called {count} times:'
HeaderLine(method_name, count) ==
    method_name \o <<32, 119, 97, 115, 32, 99, 97, 108, 108, 101, 100, 32>> \o count
                \o <<32, 116, 105, 109, 101, 115, 58>>

\* f'{method_name}(*{i.decode("utf-8")}) -> {o.decode("utf-8")}'
\* (list items were written by RedisRpush from text, so they decode)
CallLine(method_name, i, o) ==
    method_name \o <<40, 42>> \o Utf8Decode(i) \o <<41, 32, 45, 62, 32>> \o Utf8Decode(o)

\* replay(method): reads the counter through get_str, then zips the two lists
replay(d, method_name) ==
    LET c == get_str(d, method_name)
        inputs_list  == RedisLrange(c.db, InputsKey(method_name))
        outputs_list == RedisLrange(c.db, OutputsKey(method_name))
    IN  IF IsRaise(c.ret)
        THEN [db |-> c.db, ret |-> c.ret, out |-> <<>>]
        ELSE [db |-> c.db, ret |-> None,
              out |-> <<HeaderLine(method_name, c.ret.v)>> \o
                      [j \in 1..Min(Len(inputs_list), Len(outputs_list)) |->
                          CallLine(method_name, inputs_list[j], outputs_list[j])]]

\* the value of a call counter as the server holds it (0 when the key is absent)
Counter(d, name) == IF Key(name) \in DOMAIN d THEN IntValue(d[Key(name)].val) ELSE 0

\* the scalars callers store: 'a\xe9', b'123', b'\xc3' (not UTF-8), -3, 123, 1.5
Values ==
    {PyStr(<<97, 233>>), PyBytes(<<49, 50, 51>>), PyBytes(<<195>>),
     PyInt(0 - 3), PyInt(123), PyFloat(15)}

\* the keys callers ask for: every key store can return, present or not
Keys == {uuid4(n) : n \in 1..MaxStore}

Urls == {<<117>>, <<118>>}

NoOp == [name |-> "", arg |-> <<>>, fn |-> ""]

\* the callers that may run store at the same time
Procs == {1, 2}

Idle == [pc |-> "idle", data |-> None, key |-> <<>>]

Init ==
    /\ db = EmptyDb
    /\ uuids = 0
    /\ ret = None
    /\ out = <<>>
    /\ op = NoOp
    /\ stored = <<>>
    /\ now = 0
    /\ fetched = [u \in Urls |-> <<>>]
    /\ pages = [u \in Urls |-> 0]
    /\ calls = [p \in Procs |-> Idle]

\* Cache(): __init__ connects and flushes the database
CacheInit ==
    /\ db' = RedisFlushdb(db)
    /\ ret' = None
    /\ out' = <<>>
    /\ op' = [name |-> "__init__", arg |-> <<>>, fn |-> ""]
    /\ stored' = <<>>
    /\ UNCHANGED <<calls, uuids, now, fetched, pages>>

\* cache.store(data)
CallStore ==
    \E data \in Values :
        /\ uuids < MaxStore
        /\ LET r == store(db, data, uuids + 1)
           IN  /\ db' = r.db
               /\ ret' = r.ret
               /\ uuids' = IF IsRaise(r.ret) THEN uuids ELSE uuids + 1
               /\ stored' = IF IsRaise(r.ret) THEN stored
                            ELSE Append(stored, [arg |-> data, key |-> r.ret.v])
        /\ out' = <<>>
        /\ op' = [name |-> "store", arg |-> data, fn |-> ""]
        /\ UNCHANGED <<calls, now, fetched, pages>>

\* cache.get(key, fn)
CallGet ==
    \E key \in Keys, fn \in Fns :
        /\ Counter(db, QualGet) < MaxReads
        /\ LET r == get(db, key, fn)
           IN  db' = r.db /\ ret' = r.ret
        /\ out' = <<>>
        /\ op' = [name |-> "get", arg |-> key, fn |-> fn]
        /\ UNCHANGED <<calls, uuids, stored, now, fetched, pages>>

\* cache.get_str(key)
CallGetStr ==
    \E key \in Keys :
        /\ Counter(db, QualGet) < MaxReads
        /\ LET r == get_str(db, key)
           IN  db' = r.db /\ ret' = r.ret
        /\ out' = <<>>
        /\ op' = [name |-> "get_str", arg |-> key, fn |-> ""]
        /\ UNCHANGED <<calls, uuids, stored, now, fetched, pages>>

\* cache.get_int(key)
CallGetInt ==
    \E key \in Keys :
        /\ Counter(db, QualGet) < MaxReads
        /\ LET r == get_int(db, key)
           IN  db' = r.db /\ ret' = r.ret
        /\ out' = <<>>
        /\ op' = [name |-> "get_int", arg |-> key, fn |-> ""]
        /\ UNCHANGED <<calls, uuids, stored, now, fetched, pages>>

\* replay(cache.<method>)
CallReplay ==
    \E method_name \in Methods :
        /\ Counter(db, QualGet) < MaxReads
        /\ LET r == replay(db, method_name)
           IN  db' = r.db /\ ret' = r.ret /\ out' = r.out
        /\ op' = [name |-> "replay", arg |-> method_name, fn |-> ""]
        /\ UNCHANGED <<calls, uuids, stored, now, fetched, pages>>

Next == CacheInit \/ CallStore \/ CallGet \/ CallGetStr \/ CallGetInt \/ CallReplay

Spec == Init /\ [][Next]_vars

----------------------------------------------------------------------------
(* Cache.store run by several callers at once: every Redis command is one step *)

InFlight == {p \in Procs : calls[p].pc # "idle"}

\* the store calls begun so far: those that drew their key and those that have not yet
Begun == uuids + Cardinality({p \in Procs : calls[p].pc \in {"inputs", "counted"}})

Decodes(data) == data.t = "bytes" => Utf8Valid(data.v)

\* call_history.wrapper: the arguments go to the inputs list
StoreInputs(p) ==
    \E data \in Values :
        /\ calls[p].pc = "idle"
        /\ Begun < MaxStore
        /\ Decodes(data)
        /\ db' = RedisRpush(db, InputsKey(QualStore), PyStr(ArgsText(data)))
        /\ calls' = [calls EXCEPT ![p] = [pc |-> "inputs", data |-> data, key |-> <<>>]]
        /\ UNCHANGED <<uuids, ret, out, op, stored, now, fetched, pages>>

\* count_calls.wrapper: the counter
StoreCount(p) ==
    /\ calls[p].pc = "inputs"
    /\ db' = count_calls(db, QualStore)
    /\ calls' = [calls EXCEPT ![p].pc = "counted"]
    /\ UNCHANGED <<uuids, ret, out, op, stored, now, fetched, pages>>

\* Cache.store: the key is drawn and the record set
StoreSet(p) ==
    /\ calls[p].pc = "counted"
    /\ db' = RedisSet(db, uuid4(uuids + 1), calls[p].data)
    /\ uuids' = uuids + 1
    /\ calls' = [calls EXCEPT ![p].pc = "set", ![p].key = uuid4(uuids + 1)]
    /\ UNCHANGED <<ret, out, op, stored, now, fetched, pages>>

\* call_history.wrapper: the key goes to the outputs list and the call returns
StoreOutputs(p) ==
    /\ calls[p].pc = "set"
    /\ db' = RedisRpush(db, OutputsKey(QualStore), PyStr(calls[p].key))
    /\ ret' = PyStr(calls[p].key)
    /\ out' = <<>>
    /\ op' = [name |-> "store", arg |-> calls[p].data, fn |-> ""]
    /\ stored' = Append(stored, [arg |-> calls[p].data, key |-> calls[p].key])
    /\ calls' = [calls EXCEPT ![p] = Idle]
    /\ UNCHANGED <<uuids, now, fetched, pages>>

NextConc == \E p \in Procs : StoreInputs(p) \/ StoreCount(p) \/ StoreSet(p) \/ StoreOutputs(p)

SpecConc == Init /\ [][NextConc]_vars

----------------------------------------------------------------------------
(* Cache.store when the client's set fails *)

\* self._redis.set raising (connection lost)
SetError == Raise("redis.ConnectionError")

\* Cache.store as callers see it when set raises
store_set_fails(d, data, n) ==
    IF ~Decodes(data)
    THEN [db |-> d, ret |-> Raise("UnicodeDecodeError")]
    ELSE LET d1 == RedisRpush(d, InputsKey(QualStore), PyStr(ArgsText(data)))
             d2 == count_calls(d1, QualStore)
         IN  [db |-> d2, ret |-> SetError]

\* cache.store(data) with a failing set: the key was drawn, nothing is returned
CallStoreSetFails ==
    \E data \in Values :
        /\ uuids < MaxStore
        /\ Decodes(data)
        /\ LET r == store_set_fails(db, data, uuids + 1)
           IN  db' = r.db /\ ret' = r.ret
        /\ uuids' = uuids + 1
        /\ out' = <<>>
        /\ op' = [name |-> "store", arg |-> data, fn |-> ""]
        /\ UNCHANGED <<calls, stored, now, fetched, pages>>

NextFail == Next \/ CallStoreSetFails

SpecFail == Init /\ [][NextFail]_vars

----------------------------------------------------------------------------
(* web.py *)

CacheTime == 10     \* @cache(10)

CountKey(url) == <<99, 111, 117, 110, 116, 58>> \o url    \* f"count:{url}"
CacheKey(url) == <<99, 97, 99, 104, 101, 58>> \o url      \* f"cache:{url}"

\* what requests.get(url).text can be: '' or '\xe9'
Texts == {PyStr(<<>>), PyStr(<<233>>)}

\* Python's "not page" for None and bytes
Falsy(page) == page.t = "None" \/ page.v = <<>>

\* a wrapper that counts down
web_count_calls_down(d, url) == RedisDecr(d, CountKey(url))

\* web.count_calls.wrapper, up to the call of method
web_count_calls(d, url) == RedisIncr(d, CountKey(url))

\* get_page under count_calls: counts, then fetches; text is what the fetch returns
\* or the exception it raises
get_page_counted(d, url, text) == [db |-> web_count_calls(d, url), ret |-> text]

\* a wrapper that catches the failed fetch and caches str(None) for it
get_page_caching_failure(d, url, text, t) ==
    LET key  == CacheKey(url)
        page == RedisGet(d, key)
    IN  IF Falsy(page)
        THEN LET r == get_page_counted(d, url, text)
                 kept == IF IsRaise(r.ret) THEN PyStr(<<78, 111, 110, 101>>) ELSE r.ret
             IN  [db |-> RedisSetex(r.db, key, CacheTime, kept, t), ret |-> r.ret,
                  fetch |-> TRUE]
        ELSE [db |-> d, ret |-> page, fetch |-> FALSE]

\* the decorators in the other order: the counter runs on hits too
get_page_counting_hits(d, url, text, t) ==
    LET key  == CacheKey(url)
        page == RedisGet(d, key)
    IN  IF Falsy(page)
        THEN LET r == get_page_counted(d, url, text)
             IN  IF IsRaise(r.ret)
                 THEN [db |-> r.db, ret |-> r.ret, fetch |-> TRUE]
                 ELSE [db |-> RedisSetex(r.db, key, CacheTime, r.ret, t), ret |-> r.ret,
                       fetch |-> TRUE]
        ELSE [db |-> web_count_calls(d, url), ret |-> page, fetch |-> FALSE]

\* a wrapper that renews the time to live on every hit
get_page_renewing(d, url, text, t) ==
    LET key  == CacheKey(url)
        page == RedisGet(d, key)
    IN  IF Falsy(page)
        THEN LET r == get_page_counted(d, url, text)
             IN  [db |-> RedisSetex(r.db, key, CacheTime, r.ret, t), ret |-> r.ret,
                  fetch |-> TRUE]
        ELSE [db |-> RedisSetex(d, key, CacheTime, page, t), ret |-> page, fetch |-> FALSE]

\* cache(time).cache_url.wrapper around it: get_page as callers see it, at server time t
get_page(d, url, text, t) ==
    LET key  == CacheKey(url)
        page == RedisGet(d, key)
    IN  IF Falsy(page)
        THEN LET r == get_page_counted(d, url, text)
             IN  IF IsRaise(r.ret)
                 THEN [db |-> r.db, ret |-> r.ret, fetch |-> TRUE]
                 ELSE [db |-> RedisSetex(r.db, key, CacheTime, r.ret, t), ret |-> r.ret,
                       fetch |-> TRUE]
        ELSE [db |-> d, ret |-> page, fetch |-> FALSE]

RECURSIVE Sum(_, _)
Sum(f, S) == IF S = {} THEN 0 ELSE LET x == CHOOSE y \in S : TRUE IN f[x] + Sum(f, S \ {x})

\* get_page(url)
CallGetPage ==
    \E url \in Urls, text \in Texts :
        /\ Sum(pages, Urls) < MaxPages
        /\ LET r == get_page(db, url, text, now)
           IN  /\ db' = r.db
               /\ ret' = r.ret
               /\ fetched' = IF r.fetch THEN [fetched EXCEPT ![url] = Append(@, [at |-> now, text |-> text])]
                             ELSE fetched
        /\ pages' = [pages EXCEPT ![url] = @ + 1]
        /\ out' = <<>>
        /\ op' = [name |-> "get_page", arg |-> url, fn |-> ""]
        /\ UNCHANGED <<calls, uuids, stored, now>>

\* one time unit passes on the server; keys whose time to live ran out are gone
Tick ==
    /\ now < MaxTime
    /\ now' = now + 1
    /\ db' = Expire(db, now + 1)
    /\ ret' = None
    /\ out' = <<>>
    /\ op' = [name |-> "tick", arg |-> <<>>, fn |-> ""]
    /\ UNCHANGED <<calls, uuids, stored, fetched, pages>>

NextWeb == CallGetPage \/ Tick

SpecWeb == Init /\ [][NextWeb]_vars

\* requests.get(url) raising (no connection, timeout)
FetchError == Raise("ConnectionError")

\* the get_page calls made so far, returned or failed
Tries ==
    Sum(pages, Urls) +
    Sum([u \in Urls |-> Cardinality({i \in 1..Len(fetched[u]) : IsRaise(fetched[u][i].text)})],
        Urls)

\* get_page(url) while calls are left
CallGetPageReturns == Tries < MaxTries /\ CallGetPage

\* get_page(url) whose fetch raises: the call does not return
CallGetPageFetchFails ==
    \E url \in Urls :
        /\ Tries < MaxTries
        /\ LET r == get_page(db, url, FetchError, now)
           IN  /\ r.fetch
               /\ db' = r.db
               /\ ret' = r.ret
        /\ fetched' = [fetched EXCEPT ![url] = Append(@, [at |-> now, text |-> FetchError])]
        /\ out' = <<>>
        /\ op' = [name |-> "get_page", arg |-> url, fn |-> ""]
        /\ UNCHANGED <<calls, uuids, stored, now, pages>>

NextWebFail == CallGetPageReturns \/ CallGetPageFetchFails \/ Tick

SpecWebFail == Init /\ [][NextWebFail]_vars

----------------------------------------------------------------------------
(* Properties of exercise.py, checked under Spec *)

SameValue(x, y) == x.t = y.t /\ x.v = y.v

IsPrefix(s, t) == Len(s) <= Len(t) /\ SubSeq(t, 1, Len(s)) = s

Inputs(d, qualname)  == RedisLrange(d, InputsKey(qualname))
Outputs(d, qualname) == RedisLrange(d, OutputsKey(qualname))

\* the store calls (since __init__) that returned the key the last operation asked for
StoredAs(key) == {i \in 1..Len(stored) : stored[i].key = key}

IsGet == op.name = "get" /\ op.fn = "None"

C2_StoreCounter == Counter(db, QualStore) = Len(stored)

C2_Witness ==
    /\ Len(stored) >= 2
    /\ Counter(db, QualStore) = Len(stored)
    /\ Counter(db, QualGet) >= 1
    /\ Counter(db, QualGetStr) >= 1

\* what replay(cache.store) is to print after the calls in stored
ReplayExpected ==
    <<HeaderLine(QualStore, IntRepr(Len(stored)))>> \o
    [i \in 1..Len(stored) |->
        QualStore \o <<40, 42>> \o ArgsText(stored[i].arg) \o <<41, 32, 45, 62, 32>>
                  \o stored[i].key]

IsReplayStore == op.name = "replay" /\ op.arg = QualStore

\* C3: after k store calls with arguments a1..ak and keys r1..rk, replay(store)
\* reports the count k and prints exactly k lines, the i-th showing ai with ri.
C3_Replay == IsReplayStore => ~IsRaise(ret) /\ out = ReplayExpected

\* the same for k >= 1, where the counter key exists
C3_ReplayAfterStore == IsReplayStore /\ Len(stored) >= 1 => ~IsRaise(ret) /\ out = ReplayExpected

C3_ReplayAfterStoreWitness == IsReplayStore /\ Len(stored) >= 2 /\ Len(out) = 3

\* C7: get_int(store(n)) returns the int n, get_str(store(s)) returns the str s;
\* a key holding the bytes of '123' gives '123' to get_str and 123 to get_int.
C7_TypedRoundTrip ==
    /\ op.name = "get_int" =>
          \A i \in StoredAs(op.arg) :
              /\ stored[i].arg.t = "int" => SameValue(ret, stored[i].arg)
              /\ stored[i].arg = PyBytes(<<49, 50, 51>>) => SameValue(ret, PyInt(123))
    /\ op.name = "get_str" =>
          \A i \in StoredAs(op.arg) :
              /\ stored[i].arg.t = "str" => SameValue(ret, stored[i].arg)
              /\ stored[i].arg = PyBytes(<<49, 50, 51>>) =>
                     SameValue(ret, PyStr(<<49, 50, 51>>))

\* get_int has returned a negative int stored before a later store
C7_Witness ==
    /\ op.name = "get_int"
    /\ Len(stored) >= 2
    /\ op.arg = stored[1].key
    /\ stored[1].arg = PyInt(0 - 3)
    /\ SameValue(ret, PyInt(0 - 3))

\* get_str has returned a non-ASCII str
C7_WitnessStr ==
    /\ op.name = "get_str"
    /\ Len(stored) >= 1
    /\ op.arg = stored[1].key
    /\ SameValue(ret, PyStr(<<97, 233>>))

CounterStep(qualname, n) == Counter(db', qualname) = Counter(db, qualname) + n

\* C8 as stated: get_str raises only the counter of get_str, get_int only the
\* counter of get_int, each by one; the counters of get and store stay.
C8_OwnCounterOnly ==
    [][/\ op'.name = "get_str" =>
              /\ CounterStep(QualGetStr, 1) /\ CounterStep(QualGetInt, 0)
              /\ CounterStep(QualGet, 0) /\ CounterStep(QualStore, 0)
       /\ op'.name = "get_int" =>
              /\ CounterStep(QualGetInt, 1) /\ CounterStep(QualGetStr, 0)
              /\ CounterStep(QualGet, 0) /\ CounterStep(QualStore, 0)]_vars

\* C8 amended: get_str raises the counter of get_str by one and, through the
\* decorated get it calls, the counter of get by one; get_int raises the counter
\* of get_int and the counter of get by one each; both leave the counter of
\* store and each other's counter unchanged.
C8_OwnCounterAndGet ==
    [][/\ op'.name = "get_str" =>
              /\ CounterStep(QualGetStr, 1) /\ CounterStep(QualGetInt, 0)
              /\ CounterStep(QualGet, 1) /\ CounterStep(QualStore, 0)
       /\ op'.name = "get_int" =>
              /\ CounterStep(QualGetInt, 1) /\ CounterStep(QualGetStr, 0)
              /\ CounterStep(QualGet, 1) /\ CounterStep(QualStore, 0)]_vars

C8_Witness ==
    /\ op.name = "get_int"
    /\ Counter(db, QualGetInt) = 1
    /\ Counter(db, QualGetStr) = 1
    /\ Counter(db, QualGet) = 2
    /\ Counter(db, QualStore) >= 1

IsAbsent(key) == Key(key) \notin DOMAIN db

\* C9: get(key), get_str(key) and get_int(key) of a key that is not in the
\* store return an absent result and signal no error.
C9_AbsentKey ==
    (IsGet \/ op.name \in {"get_str", "get_int"}) /\ IsAbsent(op.arg) => SameValue(ret, None)

\* the part that holds: get(key) alone
C9_AbsentKeyGet == IsGet /\ IsAbsent(op.arg) => SameValue(ret, None)

C9_AbsentKeyGetWitness == IsGet /\ IsAbsent(op.arg) /\ uuids >= 1 /\ SameValue(ret, None)

\* C10 as stated: in every step, Cache initialization included, the inputs and
\* outputs lists before the step are prefixes of the lists after it.
C10_AppendOnly ==
    [][\A m \in Methods : /\ IsPrefix(Inputs(db, m), Inputs(db', m))
                          /\ IsPrefix(Outputs(db, m), Outputs(db', m))]_vars

\* C10 amended: in every step of store, get, get_str, get_int and replay the
\* inputs and outputs lists before the step are prefixes of the lists after it;
\* Cache initialization (flushdb) empties both lists.
C10_AppendOnlyUntilInit ==
    [][\A m \in Methods :
          /\ op'.name # "__init__" =>
                 /\ IsPrefix(Inputs(db, m), Inputs(db', m))
                 /\ IsPrefix(Outputs(db, m), Outputs(db', m))
          /\ op'.name = "__init__" =>
                 Inputs(db', m) = <<>> /\ Outputs(db', m) = <<>>]_vars

\* an entry recorded after an initialization that wiped an earlier one
C10_Witness ==
    /\ op.name = "store"
    /\ Len(Inputs(db, QualStore)) = 1
    /\ Len(Outputs(db, QualStore)) = 1
    /\ uuids >= 2

----------------------------------------------------------------------------
(* Properties of web.py, checked under SpecWeb *)

Last(s) == s[Len(s)]

HasEntry(url) == Key(CacheKey(url)) \in DOMAIN db

IsGetPage(url) == op.name = "get_page" /\ op.arg = url

\* C4: two get_page(url) calls made within the expiration window of the entry
\* fetch at most once, whatever the content (empty content included): no fetch
\* of a url runs less than CacheTime after the fetch before it.
C4_OneFetchPerWindow ==
    \A u \in Urls : \A i \in 1..(Len(fetched[u]) - 1) :
        fetched[u][i + 1].at >= fetched[u][i].at + CacheTime

\* the same for content that is not empty
C4_OneFetchPerWindowNonEmpty ==
    \A u \in Urls : \A i \in 1..(Len(fetched[u]) - 1) :
        fetched[u][i].text.v # <<>> => fetched[u][i + 1].at >= fetched[u][i].at + CacheTime

C4_OneFetchPerWindowNonEmptyWitness ==
    \E u \in Urls :
        /\ IsGetPage(u)
        /\ pages[u] = 2
        /\ Len(fetched[u]) = 1
        /\ fetched[u][1].text.v # <<>>
        /\ now > fetched[u][1].at

\* C5: every get_page(url) call raises 'count:<url>' by one, hit or miss: after
\* m calls that returned the counter is m.
C5_CountEveryCall == \A u \in Urls : Counter(db, CountKey(u)) = pages[u]

\* C6: the entry of a url lives exactly CacheTime units from the fetch that
\* populated it, hits do not extend it, and a get_page(url) call made once it
\* is gone fetches again and populates it for another CacheTime units.
C6_FixedWindow ==
    \A u \in Urls :
        /\ HasEntry(u) <=> (fetched[u] # <<>> /\ now < Last(fetched[u]).at + CacheTime)
        /\ HasEntry(u) =>
               /\ db[Key(CacheKey(u))].exp = Last(fetched[u]).at + CacheTime
               /\ db[Key(CacheKey(u))].val = RedisEncode(Last(fetched[u]).text)
        /\ IsGetPage(u) => HasEntry(u)

\* a fetch, a hit later in the window, and a second fetch once the window is over
C6_Witness ==
    \E u \in Urls :
        /\ IsGetPage(u)
        /\ ret.t = "str"
        /\ pages[u] >= 3
        /\ Len(fetched[u]) = 2
        /\ fetched[u][1].text.v # <<>>
        /\ fetched[u][2].at = now
        /\ now >= fetched[u][1].at + CacheTime
        /\ db[Key(CacheKey(u))].exp = now + CacheTime

----------------------------------------------------------------------------
(* Properties settled after the first ten *)

\* C11: right after a Cache is initialized the database holds no record, no
\* call counter and no history list, whatever calls came before.
C11_InitClears == op.name = "__init__" => DOMAIN db = {}

\* an initialization that followed a store and a read
C11_Witness == op.name = "__init__" /\ uuids >= 1 /\ DOMAIN db = {}

\* C13: a hit fetches nothing and returns exactly the content the most recent
\* fetch of the url returned; a miss returns the fetched content; for the same
\* page content both return the same value.
C13_SameContent ==
    \A u \in Urls : IsGetPage(u) => SameValue(ret, Last(fetched[u]).text)

\* what the code gives instead: the text on a miss, its UTF-8 bytes on a hit
C13_TextOrItsBytes ==
    \A u \in Urls :
        IsGetPage(u) =>
            /\ ret.t \in {"str", "bytes"}
            /\ ret.t = "str" => SameValue(ret, Last(fetched[u]).text)
            /\ ret.t = "bytes" => ret.v = Utf8Encode(Last(fetched[u]).text.v)

C13_TextOrItsBytesWitness ==
    \E u \in Urls : IsGetPage(u) /\ ret.t = "bytes" /\ now > Last(fetched[u]).at

\* C14: replay only reads: it leaves every record, every call counter and
\* every history list of the database unchanged.
C14_ReplayReadsOnly == [][op'.name = "replay" => db' = db]_vars

\* what the code gives instead: everything but the counters of get_str and get stays
C14_ReplayKeepsTheRest ==
    [][op'.name = "replay" =>
          /\ \A k \in DOMAIN db : k \in DOMAIN db' /\
                 (k \notin {Key(QualGet), Key(QualGetStr)} => db'[k] = db[k])
          /\ DOMAIN db' = DOMAIN db \cup {Key(QualGet), Key(QualGetStr)}
          /\ CounterStep(QualGet, 1)
          /\ CounterStep(QualGetStr, 1)]_vars

\* C15: 'count:<url>' never decreases and is never reset, across get_page calls
\* (returning or failing), cache populations and expirations.
C15_CounterMonotone ==
    [][\A u \in Urls : Counter(db', CountKey(u)) >= Counter(db, CountKey(u))]_vars

\* the counter of a url still stands after its entry expired and was populated again
C15_Witness ==
    \E u \in Urls :
        /\ Counter(db, CountKey(u)) >= 2
        /\ Len(fetched[u]) >= 2
        /\ ~IsRaise(fetched[u][1].text)
        /\ fetched[u][2].at >= fetched[u][1].at + CacheTime
        /\ HasEntry(u)

CacheEntry(d, url) == IF Key(CacheKey(url)) \in DOMAIN d THEN <<d[Key(CacheKey(url))]>> ELSE <<>>

\* C16: a get_page(url) whose fetch fails raises the failure to the caller and
\* writes no cache entry, so the next get_page(url) fetches again.
C16_FailureNotCached ==
    [][op'.name = "get_page" /\ IsRaise(ret') =>
          /\ ret' = FetchError
          /\ \A u \in Urls : CacheEntry(db', u) = CacheEntry(db, u)
          /\ get_page(db', op'.arg, FetchError, now').fetch]_vars

\* a call that fetched right after a call whose fetch failed
C16_Witness ==
    \E u \in Urls :
        /\ IsGetPage(u)
        /\ ret.t = "str"
        /\ Len(fetched[u]) = 2
        /\ IsRaise(fetched[u][1].text)
        /\ fetched[u][2].at = fetched[u][1].at

\* C19: 'count:<url>' equals the number of fetch attempts started for the url:
\* it advances when the cache wrapper falls through to the fetch, never on a hit.
C19_CounterIsAttempts == \A u \in Urls : Counter(db, CountKey(u)) = Len(fetched[u])

\* a hit, a failed attempt and a fetch behind it
C19_Witness ==
    \E u \in Urls :
        /\ pages[u] >= 2
        /\ Len(fetched[u]) = 1
        /\ Counter(db, CountKey(u)) = 1
        /\ IsGetPage(u)
        /\ ret.t = "bytes"

Quiescent == InFlight = {}

\* C12: with several callers in store at once and every Redis command atomic,
\* whenever no store call is in flight the i-th inputs entry and the i-th
\* outputs entry come from the same call, so replay pairs each argument with
\* the key its own call returned.
C12_PairsOwn ==
    Quiescent =>
        \A i \in 1..Min(Len(Inputs(db, QualStore)), Len(Outputs(db, QualStore))) :
            \E j \in 1..Len(stored) :
                /\ Inputs(db, QualStore)[i] = Utf8Encode(ArgsText(stored[j].arg))
                /\ Outputs(db, QualStore)[i] = Utf8Encode(stored[j].key)

\* what the code gives instead: the same entries in both lists, in orders of their own
C12_SameEntries ==
    Quiescent =>
        /\ Len(Inputs(db, QualStore)) = Len(stored)
        /\ Len(Outputs(db, QualStore)) = Len(stored)
        /\ \A j \in 1..Len(stored) :
               /\ Outputs(db, QualStore)[j] = Utf8Encode(stored[j].key)
               /\ \E i \in 1..Len(stored) :
                      Inputs(db, QualStore)[i] = Utf8Encode(ArgsText(stored[j].arg))

C12_SameEntriesWitness == Quiescent /\ Len(stored) >= 2 /\ ~C12_PairsOwn

\* C17: in every reachable state
\* length(inputs) >= counter of store >= length(outputs), each difference is at
\* most the number of store calls in flight, and with none in flight the three
\* are equal.
C17_Lengths ==
    LET i == Len(Inputs(db, QualStore))
        c == Counter(db, QualStore)
        o == Len(Outputs(db, QualStore))
        f == Cardinality(InFlight)
    IN  /\ i >= c /\ c >= o
        /\ i - c <= f /\ c - o <= f
        /\ f = 0 => i = c /\ c = o

\* two calls in flight, one counted and one not
C17_LengthsWitness ==
    /\ Cardinality(InFlight) = 2
    /\ Len(Inputs(db, QualStore)) = 2
    /\ Counter(db, QualStore) = 1
    /\ Len(Outputs(db, QualStore)) = 0

IsFailedStore(o, r) == o.name = "store" /\ r = SetError

\* C18: a store call that fails because set fails leaves the inputs list, the
\* outputs list and the counter of store as they were before the call, so the
\* two lists keep equal length.
C18_FailedStoreLeavesNoTrace ==
    [][IsFailedStore(op', ret') =>
          /\ Inputs(db', QualStore) = Inputs(db, QualStore)
          /\ Outputs(db', QualStore) = Outputs(db, QualStore)
          /\ Counter(db', QualStore) = Counter(db, QualStore)
          /\ Len(Inputs(db', QualStore)) = Len(Outputs(db', QualStore))]_vars

\* what the code gives instead: the argument and the count stay behind
C18_FailedStoreLeavesInput ==
    [][IsFailedStore(op', ret') =>
          /\ Inputs(db', QualStore) =
                 Append(Inputs(db, QualStore), Utf8Encode(ArgsText(op'.arg)))
          /\ Outputs(db', QualStore) = Outputs(db, QualStore)
          /\ CounterStep(QualStore, 1)]_vars

====
